---- MODULE Spec2Model ----
(***************************************************************************)
(* Model of the pre-warmed agent pool of backend/bot/pool.py (AgentPool).  *)
(* One asyncio event loop runs start(), pop(), _replenish(),               *)
(* _health_monitor() and shutdown() as cooperating tasks.  A task runs     *)
(* atomically from one suspension point (an await that really suspends)    *)
(* to the next, so every action below is one such run.  Worker processes   *)
(* exit on their own schedule (the environment).  The status property is   *)
(* synchronous: one read is one action.                                    *)
(***************************************************************************)
EXTENDS Integers, Sequences, FiniteSets, TLC

\* ---------------------------------------------------------------- bounds
PoolSize == 2       \* AgentPool.pool_size (settings.agent_pool_size)
MaxExtra == 2       \* _spawn_agent calls besides the pool_size calls of start()
MaxPops == 3        \* calls of pop()
MaxRepl == 2        \* _replenish tasks created and not yet inside the lock
MaxDeaths == 1      \* worker processes that exit without being signalled
MaxDrift == 1       \* the clock is read up to MAX_AGENT_AGE + MaxDrift seconds
MaxSpawnCalls == 2  \* _spawn_agent calls followed attempt by attempt
MaxErrors == 1      \* health monitor iterations that raise

\* ------------------------------------------------------ program constants
MAX_AGENT_AGE == 600
max_attempts == 3

\* PooledAgent objects ever constructed (one per _spawn_agent call)
MaxRecords == PoolSize + MaxExtra

None == 0
Rec == 1..MaxRecords
Callers == 1..MaxPops
Instants == {0} \cup {MAX_AGENT_AGE + j : j \in 0..MaxDrift}

VARIABLES
    configured,   \* settings.livekit_configured
    running,      \* AgentPool._running
    ready,        \* AgentPool._ready_agents (FIFO queue of records)
    all,          \* AgentPool._all_agents (list of records)
    lockHeld,     \* AgentPool._lock is held
    proc,         \* per record: state of PooledAgent.process
    created,      \* per record: PooledAgent.created_at
    termSent,     \* records whose process got process.terminate() from the pool
    killSent,     \* records whose process got process.kill() from the pool
    nextId,       \* next fresh record (room name) to construct
    now,          \* time.time()
    startPc,      \* position of start()
    startTasks,   \* the records of start()'s gathered _spawn_agent calls
    hmPc,         \* position of the _health_monitor task
    hmMarked,     \* dead_agents not yet through _remove_agent (head: in progress)
    replPending,  \* _replenish tasks created, not yet inside the lock
    replSpawn,    \* record being spawned by the _replenish holding the lock
    replRaised,   \* records of the _replenish tasks that ended with an exception
    hmErrors,     \* iterations of the health monitor that ended in its handler
    popPc,        \* per caller: position of pop()
    popRes,       \* per caller: value returned by pop()
    popSpawn,     \* per caller: record of pop()'s on-demand _spawn_agent call
    popSkipped,   \* per caller: dead records pop() took from the queue and dropped
    sdPc,         \* position of shutdown()
    sdIdx,        \* shutdown(): list-iterator index into _all_agents
    sdCur,        \* shutdown(): record whose process exit it is waiting for
    statusSeen,   \* the dict returned by the last read of status (<<>>: none)
    tokenResp,    \* per caller: outcome of its GET /api/token request
    spPc,         \* position of the _spawn_agent call looked at in detail
    spCalls,      \* number of such calls so far (the current one included)
    attempt,      \* _spawn_agent: the loop variable
    agent,        \* _spawn_agent: its PooledAgent
    launches,     \* every create_subprocess_exec call: room, outcome, call
    spError       \* the exception _spawn_agent raised

\* the state of the pool
poolVars == <<configured, running, ready, all, lockHeld, proc, created,
              termSent, killSent, nextId, now, startPc, startTasks, hmPc,
              hmMarked, replPending, replSpawn, popPc, popRes, popSpawn,
              popSkipped, sdPc, sdIdx, sdCur, statusSeen, tokenResp,
              replRaised, hmErrors>>

\* the state of the detailed _spawn_agent call
spawnVars == <<spPc, spCalls, attempt, agent, launches, spError>>

vars == <<configured, running, ready, all, lockHeld, proc, created, termSent,
          killSent, nextId, now, startPc, startTasks, hmPc, hmMarked,
          replPending, replSpawn, popPc, popRes, popSpawn, popSkipped,
          sdPc, sdIdx, sdCur, statusSeen, tokenResp, spPc, spCalls, attempt,
          agent, launches, spError, replRaised, hmErrors>>

\* ---------------------------------------------------------------- helpers
Range(s) == {s[i] : i \in 1..Len(s)}

Max(a, b) == IF a >= b THEN a ELSE b

Min(a, b) == IF a <= b THEN a ELSE b

\* list.remove(x) guarded by "if x in list": drops the first occurrence
RemoveFirst(s, r) ==
    IF r \in Range(s)
    THEN LET i == CHOOSE i \in 1..Len(s) :
                      s[i] = r /\ \A j \in 1..(i - 1) : s[j] # r
         IN  SubSeq(s, 1, i - 1) \o SubSeq(s, i + 1, Len(s))
    ELSE s

\* agent.process and agent.process.returncode is None
IsAlive(r) == proc[r] = "alive"

\* faulty variant: a record is recycled as soon as it reaches MAX_AGENT_AGE
AgedOutAtThreshold(r, t) == t - created[r] >= MAX_AGENT_AGE

\* age = time.time() - agent.created_at; age > MAX_AGENT_AGE, at time t
AgedOut(r, t) == t - created[r] > MAX_AGENT_AGE

\* records handed to a caller of pop()
Handed == {popRes[c] : c \in {d \in Callers : popPc[d] = "done"}} \ {None}

\* no PooledAgent constructed yet
NoAgent == [room_name |-> None, process |-> None, ready |-> FALSE,
            health_check_passed |-> FALSE]

\* no exception raised
NoError == [kind |-> "none", attempt |-> 0]

\* no response yet
NoResponse == [status |-> 0, room |-> None]

Init ==
    /\ configured \in BOOLEAN
    /\ running = FALSE
    /\ ready = <<>>
    /\ all = <<>>
    /\ lockHeld = FALSE
    /\ proc = [r \in Rec |-> "unborn"]
    /\ created = [r \in Rec |-> 0]
    /\ termSent = {}
    /\ killSent = {}
    /\ nextId = 1
    /\ now = 0
    /\ startPc = "idle"
    /\ startTasks = <<>>
    /\ hmPc = "none"
    /\ hmMarked = <<>>
    /\ replPending = 0
    /\ replSpawn = None
    /\ replRaised = {}
    /\ hmErrors = 0
    /\ popPc = [c \in Callers |-> "idle"]
    /\ popRes = [c \in Callers |-> None]
    /\ popSpawn = [c \in Callers |-> None]
    /\ popSkipped = [c \in Callers |-> {}]
    /\ sdPc = "idle"
    /\ sdIdx = 0
    /\ sdCur = None
    /\ statusSeen = <<>>
    /\ tokenResp = [c \in Callers |-> NoResponse]
    /\ spPc = "idle"
    /\ spCalls = 0
    /\ attempt = 0
    /\ agent = NoAgent
    /\ launches = <<>>
    /\ spError = NoError

\* ------------------------------------------------------------ _spawn_agent
\* _spawn_agent constructs its PooledAgent (room name, created_at) first and
\* later either returns it with a live process or raises after its attempts.
Construct(rs) ==
    /\ proc' = [r \in Rec |-> IF r \in rs THEN "starting" ELSE proc[r]]
    /\ created' = [r \in Rec |-> IF r \in rs THEN now ELSE created[r]]

SpawnReturns(r) == proc' = [proc EXCEPT ![r] = "alive"]

SpawnRaises(r) == proc' = [proc EXCEPT ![r] = "failed"]

\* ------------------------------------------------- _spawn_agent, in detail
\* One _spawn_agent call attempt by attempt.  Each create_subprocess_exec call
\* is kept in launches with the room it was given ("--room"), the call and
\* attempt it belongs to and its outcome: "raised" (no process), "running",
\* or "exited" (the process ended within AGENT_STARTUP_TIME).

\* faulty variant: the last retry is left out
MayRetryOnce == attempt < max_attempts - 1

\* if attempt < max_attempts
MayRetry == attempt < max_attempts

\* faulty variant: the record keeps the process of its first launch
LaunchedKeepFirst(a, p) == IF a.process = None THEN [a EXCEPT !.process = p] ELSE a

\* agent.process = proc
Launched(a, p) == [a EXCEPT !.process = p]

\* agent.ready = True; agent.health_check_passed = True
Passed(a) == [a EXCEPT !.ready = TRUE, !.health_check_passed = TRUE]

\* the call up to its first create_subprocess_exec: the room name is made
\* once, before the loop (uuid4: a name no earlier call had)
SpawnCall ==
    /\ spPc = "idle"
    /\ spCalls < MaxSpawnCalls
    /\ spCalls' = spCalls + 1
    /\ agent' = [NoAgent EXCEPT !.room_name = spCalls + 1]
    /\ attempt' = 1
    /\ spError' = NoError
    /\ spPc' = "exec"
    /\ UNCHANGED <<poolVars, launches>>

\* an attempt has failed: sleep(1) and the next attempt, or the exception e
\* leaves the call
AttemptFailed(e) ==
    IF MayRetry
    THEN spPc' = "retry" /\ UNCHANGED spError
    ELSE spPc' = "raised" /\ spError' = [kind |-> e, attempt |-> attempt]

\* create_subprocess_exec returns a process; the call sleeps for
\* AGENT_STARTUP_TIME
SpawnExecOk ==
    /\ spPc = "exec"
    /\ launches' = Append(launches, [room |-> agent.room_name, call |-> spCalls,
                                     attempt |-> attempt, outcome |-> "running"])
    /\ agent' = Launched(agent, Len(launches) + 1)
    /\ spPc' = "grace"
    /\ UNCHANGED <<poolVars, spCalls, attempt, spError>>

\* create_subprocess_exec raises: except Exception
SpawnExecRaises ==
    /\ spPc = "exec"
    /\ launches' = Append(launches, [room |-> agent.room_name, call |-> spCalls,
                                     attempt |-> attempt, outcome |-> "raised"])
    /\ AttemptFailed("launch")
    /\ UNCHANGED <<poolVars, spCalls, attempt, agent>>

\* the launched process ends during the grace period
SpawnProcDies ==
    /\ spPc = "grace"
    /\ launches[Len(launches)].outcome = "running"
    /\ launches' = [launches EXCEPT ![Len(launches)].outcome = "exited"]
    /\ UNCHANGED <<poolVars, spPc, spCalls, attempt, agent, spError>>

\* the grace period is over: proc.returncode is tested (proc is the process
\* of this attempt); a dead process fails the attempt, with a RuntimeError on
\* the last one, a running one makes the record ready and ends the call
SpawnProbe ==
    /\ spPc = "grace"
    /\ IF launches[Len(launches)].outcome = "exited"
       THEN AttemptFailed("died") /\ UNCHANGED agent
       ELSE /\ agent' = Passed(agent)
            /\ spPc' = "returned"
            /\ UNCHANGED spError
    /\ UNCHANGED <<poolVars, spCalls, attempt, launches>>

\* sleep(1) is over: the next attempt, up to its create_subprocess_exec
SpawnRetry ==
    /\ spPc = "retry"
    /\ attempt' = attempt + 1
    /\ spPc' = "exec"
    /\ UNCHANGED <<poolVars, spCalls, agent, launches, spError>>

\* the call is over; another call can be followed
SpawnOver ==
    /\ spPc \in {"returned", "raised"}
    /\ spCalls < MaxSpawnCalls
    /\ spPc' = "idle"
    /\ UNCHANGED <<poolVars, spCalls, attempt, agent, launches, spError>>

\* ------------------------------------------------------------------ start
\* faulty variant: start() pre-warms the pool whether LiveKit is configured or not
StartBeginAlwaysPrewarm ==
    /\ startPc = "idle"
    /\ running' = TRUE
    /\ nextId + PoolSize - 1 <= MaxRecords
    /\ startTasks' = [i \in 1..PoolSize |-> nextId + i - 1]
    /\ Construct(nextId..(nextId + PoolSize - 1))
    /\ nextId' = nextId + PoolSize
    /\ startPc' = "gather"
    /\ UNCHANGED hmPc
    /\ UNCHANGED <<configured, statusSeen, spawnVars, replRaised, hmErrors, tokenResp, ready, all, lockHeld, termSent, killSent, now,
                   hmMarked, replPending, replSpawn, popPc, popRes, popSpawn,
                   popSkipped, sdPc, sdIdx, sdCur>>

StartBegin ==
    /\ startPc = "idle"
    /\ running' = TRUE
    /\ IF ~configured
       THEN /\ hmPc' = "sleep"
            /\ startPc' = "done"
            /\ UNCHANGED <<startTasks, proc, created, nextId>>
       ELSE /\ nextId + PoolSize - 1 <= MaxRecords
            /\ startTasks' = [i \in 1..PoolSize |-> nextId + i - 1]
            /\ Construct(nextId..(nextId + PoolSize - 1))
            /\ nextId' = nextId + PoolSize
            /\ startPc' = "gather"
            /\ UNCHANGED hmPc
    /\ UNCHANGED <<configured, statusSeen, spawnVars, replRaised, hmErrors, tokenResp, ready, all, lockHeld, termSent, killSent, now,
                   hmMarked, replPending, replSpawn, popPc, popRes, popSpawn,
                   popSkipped, sdPc, sdIdx, sdCur>>

StartSpawnOk(i) ==
    /\ startPc = "gather"
    /\ proc[startTasks[i]] = "starting"
    /\ SpawnReturns(startTasks[i])
    /\ UNCHANGED <<configured, statusSeen, spawnVars, replRaised, hmErrors, tokenResp, running, ready, all, lockHeld, created,
                   termSent, killSent, nextId, now, startPc, startTasks, hmPc,
                   hmMarked, replPending, replSpawn, popPc, popRes, popSpawn,
                   popSkipped, sdPc, sdIdx, sdCur>>

StartSpawnFail(i) ==
    /\ startPc = "gather"
    /\ proc[startTasks[i]] = "starting"
    /\ SpawnRaises(startTasks[i])
    /\ UNCHANGED <<configured, statusSeen, spawnVars, replRaised, hmErrors, tokenResp, running, ready, all, lockHeld, created,
                   termSent, killSent, nextId, now, startPc, startTasks, hmPc,
                   hmMarked, replPending, replSpawn, popPc, popRes, popSpawn,
                   popSkipped, sdPc, sdIdx, sdCur>>

\* faulty variant: start() keeps only the records whose process is running right now
StartCollectLive(tasks) == SelectSeq(tasks, LAMBDA r : proc[r] = "alive")

\* faulty variant: start() inserts every gathered result, exceptions included
StartCollectAll(tasks) == tasks

\* the results of gather(..., return_exceptions=True) that are PooledAgent
StartCollect(tasks) == SelectSeq(tasks, LAMBDA r : proc[r] # "failed")

\* the health monitor task created by start(): its loop ends at once when
\* _running is already false
HealthTaskStart == IF running THEN "sleep" ELSE "ended"

StartFinish ==
    /\ startPc = "gather"
    /\ \A i \in 1..Len(startTasks) : proc[startTasks[i]] # "starting"
    /\ ready' = ready \o StartCollect(startTasks)
    /\ all' = all \o StartCollect(startTasks)
    /\ hmPc' = HealthTaskStart
    /\ startPc' = "done"
    /\ UNCHANGED <<configured, statusSeen, spawnVars, replRaised, hmErrors, tokenResp, running, lockHeld, proc, created, termSent,
                   killSent, nextId, now, startTasks, hmMarked, replPending,
                   replSpawn, popPc, popRes, popSpawn, popSkipped, sdPc,
                   sdIdx, sdCur>>

\* --------------------------------------------------- worker processes, time
SpontaneousDeaths ==
    Cardinality({r \in Rec : proc[r] = "exited" /\ r \notin termSent \cup killSent})

\* a worker process exits by itself
Die(r) ==
    /\ proc[r] = "alive"
    /\ r \notin termSent \cup killSent
    /\ r \notin Handed
    /\ SpontaneousDeaths < MaxDeaths
    /\ proc' = [proc EXCEPT ![r] = "exited"]
    /\ UNCHANGED <<configured, statusSeen, spawnVars, replRaised, hmErrors, tokenResp, running, ready, all, lockHeld, created,
                   termSent, killSent, nextId, now, startPc, startTasks, hmPc,
                   hmMarked, replPending, replSpawn, popPc, popRes, popSpawn,
                   popSkipped, sdPc, sdIdx, sdCur>>

\* a worker process exits after terminate() or kill()
ProcExit(r) ==
    /\ proc[r] = "alive"
    /\ r \in termSent \cup killSent
    /\ proc' = [proc EXCEPT ![r] = "exited"]
    /\ UNCHANGED <<configured, statusSeen, spawnVars, replRaised, hmErrors, tokenResp, running, ready, all, lockHeld, created,
                   termSent, killSent, nextId, now, startPc, startTasks, hmPc,
                   hmMarked, replPending, replSpawn, popPc, popRes, popSpawn,
                   popSkipped, sdPc, sdIdx, sdCur>>

\* ---------------------------------------------------------- _health_monitor
\* the sweep's test of one tracked record at time t: process exited, or too old
\* faulty variant: the sweep looks at the age only
MarkedAgedOnly(r, t) == AgedOut(r, t)

\* the two checks of the sweep: 1. process exited, 2. age
Marked(r, t) == proc[r] = "exited" \/ AgedOut(r, t)

\* faulty variant: no "continue" after the process check, the age check marks
\* an exited record a second time
DeadAgentsNoContinue(t) ==
    SelectSeq(all, LAMBDA r : proc[r] = "exited") \o
    SelectSeq(all, LAMBDA r : AgedOut(r, t))

\* dead_agents of one sweep at time t, in list order
DeadAgents(t) == SelectSeq(all, LAMBDA r : Marked(r, t))

\* "for agent in dead_agents: await self._remove_agent(agent)" run up to its
\* next suspension: _remove_agent drops the record from _all_agents and, when
\* the process is still running, terminates it and waits for its exit.
\* Result: the records still to go (head: the one being waited for) and the
\* tracking list.
RECURSIVE RemoveLoop(_, _)
RemoveLoop(m, al) ==
    IF m = <<>>
    THEN [marked |-> <<>>, all |-> al]
    ELSE IF IsAlive(Head(m))
         THEN [marked |-> m, all |-> RemoveFirst(al, Head(m))]
         ELSE RemoveLoop(Tail(m), RemoveFirst(al, Head(m)))

\* faulty variant: the sweep never asks for a replenishment
NeededNone(al) == 0

\* faulty variant: the deficit is computed from the list as it was before the
\* removals of this run
NeededBeforeRemovals(al) == Max(0, PoolSize - Len(all))

\* needed = pool_size - current_count when current_count < pool_size
Needed(al) == Max(0, PoolSize - Len(al))

\* the sweep from its removal loop on
HMContinue(m) ==
    LET res == RemoveLoop(m, all) IN
    /\ all' = res.all
    /\ hmMarked' = res.marked
    /\ IF res.marked # <<>>
       THEN /\ termSent' = termSent \cup {Head(res.marked)}
            /\ hmPc' = "wait"
            /\ UNCHANGED replPending
       ELSE /\ replPending + Needed(res.all) <= MaxRepl
            /\ replPending' = replPending + Needed(res.all)
            /\ hmPc' = "sleep"
            /\ UNCHANGED termSent

\* asyncio.sleep(AGENT_HEALTH_CHECK_INTERVAL) ends at a later time: one sweep,
\* up to its first suspension or to its end
HMSweep(t) ==
    /\ hmPc = "sleep"
    /\ running
    /\ t >= now
    /\ now' = t
    /\ HMContinue(DeadAgents(t))
    /\ UNCHANGED <<configured, statusSeen, spawnVars, replRaised, hmErrors, tokenResp, running, ready, lockHeld, proc, created,
                   killSent, nextId, startPc, startTasks, replSpawn,
                   popPc, popRes, popSpawn, popSkipped, sdPc, sdIdx, sdCur>>

\* faulty variant: an exception inside an iteration ends the monitor's loop
AfterSweepErrorEnds == "ended"

\* "except Exception as e: logger.error(...)" inside the while loop: the loop
\* tests self._running, still set, and sleeps again
AfterSweepError == "sleep"

\* an iteration of the monitor raises and ends in the handler: while it builds
\* dead_agents ("check": nothing is changed yet), or after a removal loop that
\* did not suspend, before any _replenish task is created ("schedule")
HMSweepRaises(t, phase) ==
    /\ hmPc = "sleep"
    /\ running
    /\ t >= now
    /\ hmErrors < MaxErrors
    /\ now' = t
    /\ hmErrors' = hmErrors + 1
    /\ hmPc' = AfterSweepError
    /\ IF phase = "check"
       THEN all' = all
       ELSE /\ RemoveLoop(DeadAgents(t), all).marked = <<>>
            /\ all' = RemoveLoop(DeadAgents(t), all).all
    /\ UNCHANGED <<configured, statusSeen, spawnVars, replRaised, tokenResp, running, ready, lockHeld, proc,
                   created, termSent, killSent, nextId, startPc, startTasks,
                   hmMarked, replPending, replSpawn, popPc, popRes, popSpawn,
                   popSkipped, sdPc, sdIdx, sdCur>>

\* wait_for(agent.process.wait(), timeout=3) returns, or times out and the
\* process is killed; the sweep goes on
HMResume ==
    /\ hmPc = "wait"
    /\ killSent' = IF IsAlive(Head(hmMarked))
                   THEN killSent \cup {Head(hmMarked)}
                   ELSE killSent
    /\ HMContinue(Tail(hmMarked))
    /\ UNCHANGED <<configured, statusSeen, spawnVars, replRaised, hmErrors, tokenResp, running, ready, lockHeld, proc, created,
                   nextId, now, startPc, startTasks, replSpawn, popPc, popRes,
                   popSpawn, popSkipped, sdPc, sdIdx, sdCur>>

\* ----------------------------------------------------------------- _replenish
\* faulty variant: _replenish spawns without looking at the tracked count
ReplNeededAlways == TRUE

\* faulty variant: _replenish compares with pool_size - 1
ReplNeededOffByOne == Len(all) < PoolSize - 1

\* faulty variant: _replenish still spawns when the tracked count equals pool_size
ReplNeededAtMost == Len(all) <= PoolSize

\* the check under the lock: len(self._all_agents) >= self.pool_size returns
ReplNeeded == Len(all) < PoolSize

ReplEnter ==
    /\ replPending > 0
    /\ ~lockHeld
    /\ replPending' = replPending - 1
    /\ IF ReplNeeded
       THEN /\ nextId <= MaxRecords
            /\ lockHeld' = TRUE
            /\ replSpawn' = nextId
            /\ Construct({nextId})
            /\ nextId' = nextId + 1
       ELSE UNCHANGED <<lockHeld, replSpawn, proc, created, nextId>>
    /\ UNCHANGED <<configured, statusSeen, spawnVars, replRaised, hmErrors, tokenResp, running, ready, all, termSent, killSent, now,
                   startPc, startTasks, hmPc, hmMarked, popPc, popRes,
                   popSpawn, popSkipped, sdPc, sdIdx, sdCur>>

\* faulty variant: _replenish tracks its new record and never queues it
ReplSpawnOkTrackOnly ==
    /\ replSpawn # None
    /\ SpawnReturns(replSpawn)
    /\ all' = Append(all, replSpawn)
    /\ lockHeld' = FALSE
    /\ replSpawn' = None
    /\ UNCHANGED <<configured, statusSeen, spawnVars, replRaised, hmErrors, tokenResp, running, ready, created, termSent, killSent,
                   nextId, now, startPc, startTasks, hmPc, hmMarked, replPending,
                   popPc, popRes, popSpawn, popSkipped, sdPc, sdIdx, sdCur>>

ReplSpawnOk ==
    /\ replSpawn # None
    /\ SpawnReturns(replSpawn)
    /\ ready' = Append(ready, replSpawn)
    /\ all' = Append(all, replSpawn)
    /\ lockHeld' = FALSE
    /\ replSpawn' = None
    /\ UNCHANGED <<configured, statusSeen, spawnVars, replRaised, hmErrors, tokenResp, running, created, termSent, killSent, nextId,
                   now, startPc, startTasks, hmPc, hmMarked, replPending,
                   popPc, popRes, popSpawn, popSkipped, sdPc, sdIdx, sdCur>>

\* faulty variant: the exception leaves _replenish with the lock still held
ReplSpawnFailKeepsLock ==
    /\ replSpawn # None
    /\ SpawnRaises(replSpawn)
    /\ replRaised' = replRaised \cup {replSpawn}
    /\ replSpawn' = None
    /\ UNCHANGED <<configured, statusSeen, spawnVars, hmErrors, tokenResp, running, ready, all, lockHeld, created,
                   termSent, killSent, nextId, now, startPc, startTasks, hmPc,
                   hmMarked, replPending, popPc, popRes, popSpawn, popSkipped,
                   sdPc, sdIdx, sdCur>>

ReplSpawnFail ==
    /\ replSpawn # None
    /\ SpawnRaises(replSpawn)
    /\ replRaised' = replRaised \cup {replSpawn}
    /\ lockHeld' = FALSE
    /\ replSpawn' = None
    /\ UNCHANGED <<configured, statusSeen, spawnVars, hmErrors, tokenResp, running, ready, all, created, termSent,
                   killSent, nextId, now, startPc, startTasks, hmPc, hmMarked,
                   replPending, popPc, popRes, popSpawn, popSkipped, sdPc,
                   sdIdx, sdCur>>

\* ------------------------------------------------------------- generate_token
\* faulty variant: the endpoint builds a token without testing pop()'s result
generate_token_unchecked(pool_agent) == [status |-> 200, room |-> pool_agent]

\* GET /api/token from the return of agent_pool.pop() on (the synchronous
\* rest of the handler): HTTP 503 when pop() returned None, otherwise a token
\* for pool_agent.room_name in a 200 response
generate_token(pool_agent) ==
    IF pool_agent = None
    THEN [status |-> 503, room |-> None]
    ELSE [status |-> 200, room |-> pool_agent]

\* ------------------------------------------------------------------------ pop
\* the drain loop of pop(): takes records from the front of the queue until
\* one has a running process (returned, and dropped from _all_agents) or the
\* queue is empty; a record whose process exited goes through _remove_agent.
\* faulty variant: pop() returns the front record without testing its process
PopDrainNoCheck(q, al) ==
    IF q = <<>>
    THEN [res |-> None, ready |-> <<>>, all |-> al, skipped |-> {}]
    ELSE [res |-> Head(q), ready |-> Tail(q),
          all |-> RemoveFirst(al, Head(q)), skipped |-> {}]

\* faulty variant: pop() reads the front record and leaves it in the queue
PopDrainPeek(q, al) ==
    IF q = <<>> \/ ~IsAlive(Head(q))
    THEN [res |-> None, ready |-> <<>>, all |-> al, skipped |-> {}]
    ELSE [res |-> Head(q), ready |-> q,
          all |-> RemoveFirst(al, Head(q)), skipped |-> {}]

\* faulty variant: pop() gives up at the first dead record instead of draining on
PopDrainStopAtDead(q, al) ==
    IF q = <<>> \/ ~IsAlive(Head(q))
    THEN [res |-> None, ready |-> <<>>, all |-> al, skipped |-> {}]
    ELSE [res |-> Head(q), ready |-> Tail(q),
          all |-> RemoveFirst(al, Head(q)), skipped |-> {}]

\* faulty variant: pop() drops a dead record from the queue and leaves it tracked
RECURSIVE PopDrainKeepTracked(_, _)
PopDrainKeepTracked(q, al) ==
    IF q = <<>>
    THEN [res |-> None, ready |-> <<>>, all |-> al, skipped |-> {}]
    ELSE IF IsAlive(Head(q))
         THEN [res |-> Head(q), ready |-> Tail(q),
               all |-> RemoveFirst(al, Head(q)), skipped |-> {}]
         ELSE LET rest == PopDrainKeepTracked(Tail(q), al)
              IN  [rest EXCEPT !.skipped = @ \cup {Head(q)}]

\* faulty variant: pop() takes the record at the back of the queue
PopDrainLifo(q, al) ==
    IF q = <<>> \/ ~IsAlive(q[Len(q)])
    THEN [res |-> None, ready |-> <<>>, all |-> al, skipped |-> {}]
    ELSE [res |-> q[Len(q)], ready |-> SubSeq(q, 1, Len(q) - 1),
          all |-> RemoveFirst(al, q[Len(q)]), skipped |-> {}]

RECURSIVE PopDrain(_, _)
PopDrain(q, al) ==
    IF q = <<>>
    THEN [res |-> None, ready |-> <<>>, all |-> al, skipped |-> {}]
    ELSE IF IsAlive(Head(q))
         THEN [res |-> Head(q), ready |-> Tail(q),
               all |-> RemoveFirst(al, Head(q)), skipped |-> {}]
         ELSE LET rest == PopDrain(Tail(q), RemoveFirst(al, Head(q)))
              IN  [rest EXCEPT !.skipped = @ \cup {Head(q)}]

\* faulty variant: pop() waits for the _replenish lock before it looks at the queue
PopAwaitsLock(c) ==
    /\ popPc[c] = "idle"
    /\ startPc # "idle"
    /\ IF c = 1 THEN TRUE ELSE popPc[c - 1] # "idle"
    /\ ~lockHeld

PopMayStart(c) ==
    /\ popPc[c] = "idle"
    /\ startPc # "idle"
    /\ IF c = 1 THEN TRUE ELSE popPc[c - 1] # "idle"

\* faulty variant: pop() hands out a queued record without scheduling a
\* replenishment
PopFromQueueNoReplenish(c) ==
    LET d == PopDrain(ready, all) IN
    /\ PopMayStart(c)
    /\ d.res # None
    /\ ready' = d.ready
    /\ all' = d.all
    /\ popSkipped' = [popSkipped EXCEPT ![c] = d.skipped]
    /\ popRes' = [popRes EXCEPT ![c] = d.res]
    /\ popPc' = [popPc EXCEPT ![c] = "done"]
    /\ tokenResp' = [tokenResp EXCEPT ![c] = generate_token(d.res)]
    /\ UNCHANGED <<configured, statusSeen, spawnVars, replRaised, hmErrors, running, lockHeld, proc, created, termSent,
                   killSent, nextId, now, startPc, startTasks, hmPc, hmMarked,
                   replPending, replSpawn, popSpawn, sdPc, sdIdx, sdCur>>

\* pop() served from the queue
PopFromQueue(c) ==
    LET d == PopDrain(ready, all) IN
    /\ PopMayStart(c)
    /\ d.res # None
    /\ replPending < MaxRepl
    /\ ready' = d.ready
    /\ all' = d.all
    /\ popSkipped' = [popSkipped EXCEPT ![c] = d.skipped]
    /\ replPending' = replPending + 1
    /\ popRes' = [popRes EXCEPT ![c] = d.res]
    /\ popPc' = [popPc EXCEPT ![c] = "done"]
    /\ tokenResp' = [tokenResp EXCEPT ![c] = generate_token(d.res)]
    /\ UNCHANGED <<configured, statusSeen, spawnVars, replRaised, hmErrors, running, lockHeld, proc, created, termSent,
                   killSent, nextId, now, startPc, startTasks, hmPc, hmMarked,
                   replSpawn, popSpawn, sdPc, sdIdx, sdCur>>

\* faulty variant: pop() returns None on an exhausted queue, without a spawn
PopGiveUp(c) ==
    LET d == PopDrain(ready, all) IN
    /\ PopMayStart(c)
    /\ d.res = None
    /\ ready' = d.ready
    /\ all' = d.all
    /\ popSkipped' = [popSkipped EXCEPT ![c] = d.skipped]
    /\ popRes' = [popRes EXCEPT ![c] = None]
    /\ popPc' = [popPc EXCEPT ![c] = "done"]
    /\ tokenResp' = [tokenResp EXCEPT ![c] = generate_token(None)]
    /\ UNCHANGED <<configured, statusSeen, spawnVars, replRaised, hmErrors, running, lockHeld, proc, created, termSent,
                   killSent, nextId, now, startPc, startTasks, hmPc, hmMarked,
                   replPending, replSpawn, popSpawn, sdPc, sdIdx, sdCur>>

\* "if qsize() > self.pool_size": the queue is emptied by force
DesyncDrain(q) == IF Len(q) > PoolSize THEN <<>> ELSE q

\* faulty variant: pop() goes to its on-demand spawn without touching the queue
PopOnDemandKeepQueue(c) ==
    /\ PopMayStart(c)
    /\ PopDrain(ready, all).res = None
    /\ nextId <= MaxRecords
    /\ popSkipped' = [popSkipped EXCEPT ![c] = {}]
    /\ popSpawn' = [popSpawn EXCEPT ![c] = nextId]
    /\ Construct({nextId})
    /\ nextId' = nextId + 1
    /\ popPc' = [popPc EXCEPT ![c] = "spawn"]
    /\ UNCHANGED <<configured, statusSeen, spawnVars, replRaised, hmErrors, tokenResp, running, ready, all, lockHeld, termSent,
                   killSent, now, startPc, startTasks, hmPc, hmMarked,
                   replPending, replSpawn, popRes, sdPc, sdIdx, sdCur>>

\* pop() finds no live record in the queue and starts its on-demand spawn
PopOnDemand(c) ==
    LET d == PopDrain(ready, all) IN
    /\ PopMayStart(c)
    /\ d.res = None
    /\ nextId <= MaxRecords
    /\ ready' = DesyncDrain(d.ready)
    /\ all' = d.all
    /\ popSkipped' = [popSkipped EXCEPT ![c] = d.skipped]
    /\ popSpawn' = [popSpawn EXCEPT ![c] = nextId]
    /\ Construct({nextId})
    /\ nextId' = nextId + 1
    /\ popPc' = [popPc EXCEPT ![c] = "spawn"]
    /\ UNCHANGED <<configured, statusSeen, spawnVars, replRaised, hmErrors, tokenResp, running, lockHeld, termSent, killSent, now,
                   startPc, startTasks, hmPc, hmMarked, replPending,
                   replSpawn, popRes, sdPc, sdIdx, sdCur>>

PopSpawnOk(c) ==
    /\ popPc[c] = "spawn"
    /\ SpawnReturns(popSpawn[c])
    /\ all' = RemoveFirst(all, popSpawn[c])
    /\ popRes' = [popRes EXCEPT ![c] = popSpawn[c]]
    /\ popPc' = [popPc EXCEPT ![c] = "done"]
    /\ tokenResp' = [tokenResp EXCEPT ![c] = generate_token(popSpawn[c])]
    /\ UNCHANGED <<configured, statusSeen, spawnVars, replRaised, hmErrors, running, ready, lockHeld, created, termSent,
                   killSent, nextId, now, startPc, startTasks, hmPc, hmMarked,
                   replPending, replSpawn, popSpawn, popSkipped, sdPc, sdIdx,
                   sdCur>>

PopSpawnFail(c) ==
    /\ popPc[c] = "spawn"
    /\ SpawnRaises(popSpawn[c])
    /\ popRes' = [popRes EXCEPT ![c] = None]
    /\ popPc' = [popPc EXCEPT ![c] = "done"]
    /\ tokenResp' = [tokenResp EXCEPT ![c] = generate_token(None)]
    /\ UNCHANGED <<configured, statusSeen, spawnVars, replRaised, hmErrors, running, ready, all, lockHeld, created,
                   termSent, killSent, nextId, now, startPc, startTasks, hmPc,
                   hmMarked, replPending, replSpawn, popSpawn, popSkipped,
                   sdPc, sdIdx, sdCur>>

\* ------------------------------------------------------------------- shutdown
\* "for agent in self._all_agents" from list-iterator index i up to its next
\* suspension: a running process is terminated and waited for; at the end of
\* the list _all_agents is cleared.
RECURSIVE TerminateLoop(_, _)
TerminateLoop(i, al) ==
    IF i >= Len(al)
    THEN [done |-> TRUE, idx |-> i, cur |-> None]
    ELSE IF IsAlive(al[i + 1])
         THEN [done |-> FALSE, idx |-> i + 1, cur |-> al[i + 1]]
         ELSE TerminateLoop(i + 1, al)

SDContinue(i) ==
    LET res == TerminateLoop(i, all) IN
    /\ sdIdx' = res.idx
    /\ sdCur' = res.cur
    /\ IF res.done
       THEN /\ all' = <<>>
            /\ sdPc' = "done"
            /\ UNCHANGED termSent
       ELSE /\ termSent' = termSent \cup {res.cur}
            /\ sdPc' = "wait"
            /\ UNCHANGED all

\* faulty variant: shutdown() does not cancel the health monitor task
ShutdownBeginNoCancel ==
    /\ sdPc = "idle"
    /\ startPc # "idle"
    /\ running' = FALSE
    /\ SDContinue(0)
    /\ UNCHANGED <<hmPc, hmMarked>>
    /\ UNCHANGED <<configured, statusSeen, spawnVars, replRaised, hmErrors, tokenResp, ready, lockHeld, proc, created, killSent,
                   nextId, now, startPc, startTasks, replPending, replSpawn,
                   popPc, popRes, popSpawn, popSkipped>>

\* shutdown() up to its first suspension: with a pending health monitor task
\* it cancels the task and waits for it; otherwise it goes into the loop
ShutdownBegin ==
    /\ sdPc = "idle"
    /\ startPc # "idle"
    /\ running' = FALSE
    /\ IF hmPc \in {"sleep", "wait"}
       THEN /\ hmPc' = "cancelled"
            /\ hmMarked' = <<>>
            /\ sdPc' = "loop"
            /\ UNCHANGED <<all, termSent, sdIdx, sdCur>>
       ELSE /\ SDContinue(0)
            /\ UNCHANGED <<hmPc, hmMarked>>
    /\ UNCHANGED <<configured, statusSeen, spawnVars, replRaised, hmErrors, tokenResp, ready, lockHeld, proc, created, killSent,
                   nextId, now, startPc, startTasks, replPending, replSpawn,
                   popPc, popRes, popSpawn, popSkipped>>

ShutdownLoop ==
    /\ sdPc = "loop"
    /\ SDContinue(0)
    /\ UNCHANGED <<configured, statusSeen, spawnVars, replRaised, hmErrors, tokenResp, running, ready, lockHeld, proc, created,
                   killSent, nextId, now, startPc, startTasks, hmPc, hmMarked,
                   replPending, replSpawn, popPc, popRes, popSpawn,
                   popSkipped>>

\* wait_for(agent.process.wait(), timeout=5) returns, or times out and the
\* process is killed; the loop goes on
ShutdownResume ==
    /\ sdPc = "wait"
    /\ killSent' = IF IsAlive(sdCur) THEN killSent \cup {sdCur} ELSE killSent
    /\ SDContinue(sdIdx)
    /\ UNCHANGED <<configured, statusSeen, spawnVars, replRaised, hmErrors, tokenResp, running, ready, lockHeld, proc, created,
                   nextId, now, startPc, startTasks, hmPc, hmMarked,
                   replPending, replSpawn, popPc, popRes, popSpawn,
                   popSkipped>>

\* --------------------------------------------------------------------- status
\* faulty variant: status reports the tracked count as the ready count
StatusTrackedAsReady ==
    [pool_size |-> PoolSize,
     ready |-> Len(all),
     total_tracked |-> Len(all),
     running |-> running]

\* the dict the status property builds (ready_rooms and livekit_config left out)
Status ==
    [pool_size |-> PoolSize,
     ready |-> Len(ready),
     total_tracked |-> Len(all),
     running |-> running]

\* a read of agent_pool.status
ReadStatus ==
    /\ statusSeen' = <<Status>>
    /\ UNCHANGED <<configured, running, ready, all, lockHeld, proc, created,
                   termSent, killSent, nextId, now, startPc, startTasks, hmPc,
                   hmMarked, replPending, replSpawn, popPc, popRes, popSpawn,
                   popSkipped, sdPc, sdIdx, sdCur, tokenResp, spawnVars,
                   replRaised, hmErrors>>

\* ---------------------------------------------------------------------- spec
Next ==
    \/ StartBegin
    \/ \E i \in 1..PoolSize : StartSpawnOk(i)
    \/ \E i \in 1..PoolSize : StartSpawnFail(i)
    \/ StartFinish
    \/ \E t \in Instants : HMSweep(t)
    \/ HMResume
    \/ ReplEnter
    \/ ReplSpawnOk
    \/ ReplSpawnFail
    \/ \E c \in Callers : PopFromQueue(c)
    \/ \E c \in Callers : PopOnDemand(c)
    \/ \E c \in Callers : PopSpawnOk(c)
    \/ \E c \in Callers : PopSpawnFail(c)
    \/ ShutdownBegin
    \/ ShutdownLoop
    \/ ShutdownResume
    \/ \E r \in Rec : Die(r)
    \/ \E r \in Rec : ProcExit(r)

\* normal operation: LiveKit is configured and start() pre-warms the pool
InitConfigured == Init /\ configured

Spec == InitConfigured /\ [][Next]_vars

\* start() up to its return: the steps that can run while it gathers its
\* spawns (no record is tracked or queued yet, no health monitor exists)
NextStart ==
    \/ StartBegin
    \/ \E i \in 1..PoolSize : StartSpawnOk(i)
    \/ \E i \in 1..PoolSize : StartSpawnFail(i)
    \/ StartFinish
    \/ startPc = "gather" /\ \E c \in Callers : PopOnDemand(c)
    \/ startPc = "gather" /\ \E c \in Callers : PopSpawnOk(c)
    \/ startPc = "gather" /\ \E c \in Callers : PopSpawnFail(c)
    \/ startPc = "gather" /\ ShutdownBegin
    \/ startPc = "gather" /\ \E r \in Rec : Die(r)

SpecStart == InitConfigured /\ [][NextStart]_vars

\* The pool with every spawn succeeding, no worker process exiting and no
\* record reaching MAX_AGENT_AGE, and no shutdown().  The event loop runs
\* every created _replenish task (asyncio.Lock wakes its waiters in turn) and
\* a spawn that succeeds returns.  Every pop() takes one record away for good:
\* pop() is called as often as there are records to replace the ones taken,
\* so that no replenishment is held up by MaxRecords.
LiveCallers == 1..Min(MaxPops, MaxExtra)

NextLive ==
    \/ StartBegin
    \/ \E i \in 1..PoolSize : StartSpawnOk(i)
    \/ StartFinish
    \/ \E t \in {u \in Instants : u <= MAX_AGENT_AGE} : HMSweep(t)
    \/ ReplEnter
    \/ ReplSpawnOk
    \/ \E c \in LiveCallers : PopFromQueue(c)
    \/ \E c \in LiveCallers : PopOnDemand(c)
    \/ \E c \in LiveCallers : PopSpawnOk(c)

SpecLive ==
    /\ Init
    /\ [][NextLive]_vars
    /\ WF_vars(ReplEnter)
    /\ WF_vars(ReplSpawnOk)

\* The pool of SpecLive's conditions with LiveKit configured, where pop() is
\* called only once start() has returned: the first call finds pool_size
\* running records in the queue.
NextBurst ==
    \/ StartBegin
    \/ \E i \in 1..PoolSize : StartSpawnOk(i)
    \/ StartFinish
    \/ \E t \in {u \in Instants : u <= MAX_AGENT_AGE} : HMSweep(t)
    \/ ReplEnter
    \/ ReplSpawnOk
    \/ startPc = "done" /\ \E c \in Callers : PopFromQueue(c)
    \/ startPc = "done" /\ \E c \in Callers : PopOnDemand(c)
    \/ \E c \in Callers : PopSpawnOk(c)

SpecBurst == InitConfigured /\ [][NextBurst]_vars

\* The whole pool, where a pop() that has started its on-demand spawn gets
\* the spawn's outcome (_spawn_agent returns or raises after its bounded
\* attempts).  Nothing is assumed about _replenish: it may hold the lock for
\* ever.
SpecAcquire ==
    /\ InitConfigured
    /\ [][Next]_vars
    /\ \A c \in Callers : WF_vars(PopSpawnOk(c) \/ PopSpawnFail(c))

\* degraded mode: LiveKit is not configured and start() skips the pre-warming,
\* so the steps of start()'s gathered spawns do not exist
InitDegraded == Init /\ ~configured

NextDegraded ==
    \/ StartBegin
    \/ \E t \in Instants : HMSweep(t)
    \/ HMResume
    \/ ReplEnter
    \/ ReplSpawnOk
    \/ ReplSpawnFail
    \/ \E c \in Callers : PopFromQueue(c)
    \/ \E c \in Callers : PopOnDemand(c)
    \/ \E c \in Callers : PopSpawnOk(c)
    \/ \E c \in Callers : PopSpawnFail(c)
    \/ ShutdownBegin
    \/ ShutdownLoop
    \/ ShutdownResume
    \/ \E r \in Rec : Die(r)
    \/ \E r \in Rec : ProcExit(r)

SpecDegraded == InitDegraded /\ [][NextDegraded]_vars

\* The pool with status read at any moment: start(), pop(), _replenish, the
\* health monitor and shutdown(), every spawn succeeding and no worker process
\* exiting unless terminated.
NextStatus ==
    \/ StartBegin
    \/ \E i \in 1..PoolSize : StartSpawnOk(i)
    \/ StartFinish
    \/ \E t \in {u \in Instants : u <= MAX_AGENT_AGE} : HMSweep(t)
    \/ ReplEnter
    \/ ReplSpawnOk
    \/ \E c \in Callers : PopFromQueue(c)
    \/ \E c \in Callers : PopOnDemand(c)
    \/ \E c \in Callers : PopSpawnOk(c)
    \/ ShutdownBegin
    \/ ShutdownLoop
    \/ ShutdownResume
    \/ \E r \in Rec : ProcExit(r)
    \/ ReadStatus

SpecStatus == InitConfigured /\ [][NextStatus]_vars

\* The running pool with worker deaths, where every spawn succeeds and no
\* record reaches MAX_AGENT_AGE (so a sweep removes exited processes only and
\* never waits).  The monitor's sleep ends, the event loop runs every created
\* _replenish task and a spawn returns.  pop() is called as often as the model
\* has records to replace both the records handed out and the dead ones.
HealCallers == 1..(MaxExtra - MaxDeaths)

HMSweepYoung == \E t \in {u \in Instants : u <= MAX_AGENT_AGE} : HMSweep(t)

NextHeal ==
    \/ StartBegin
    \/ \E i \in 1..PoolSize : StartSpawnOk(i)
    \/ StartFinish
    \/ HMSweepYoung
    \/ ReplEnter
    \/ ReplSpawnOk
    \/ \E c \in HealCallers : PopFromQueue(c)
    \/ \E c \in HealCallers : PopOnDemand(c)
    \/ \E c \in HealCallers : PopSpawnOk(c)
    \/ \E r \in Rec : Die(r)

SpecHeal ==
    /\ InitConfigured
    /\ [][NextHeal]_vars
    /\ WF_vars(StartFinish)
    /\ WF_vars(HMSweepYoung)
    /\ WF_vars(ReplEnter)
    /\ WF_vars(ReplSpawnOk)
    /\ \A c \in HealCallers : WF_vars(PopSpawnOk(c))

\* _spawn_agent calls, one after the other, with every outcome of every attempt
NextSpawn ==
    \/ SpawnCall
    \/ SpawnExecOk
    \/ SpawnExecRaises
    \/ SpawnProcDies
    \/ SpawnProbe
    \/ SpawnRetry
    \/ SpawnOver

SpecSpawn == InitConfigured /\ [][NextSpawn]_vars

\* The pool kept up by its background tasks: start() with either outcome of
\* each spawn, the health monitor at every instant (records die and age out),
\* _replenish with either outcome of its spawn, and one pop() served from the
\* queue.  No shutdown and no on-demand spawn.
NextUpkeep ==
    \/ StartBegin
    \/ \E i \in 1..PoolSize : StartSpawnOk(i)
    \/ \E i \in 1..PoolSize : StartSpawnFail(i)
    \/ StartFinish
    \/ \E t \in Instants : HMSweep(t)
    \/ HMResume
    \/ ReplEnter
    \/ ReplSpawnOk
    \/ ReplSpawnFail
    \/ PopFromQueue(1)
    \/ \E r \in Rec : Die(r)
    \/ \E r \in Rec : ProcExit(r)

SpecUpkeep == InitConfigured /\ [][NextUpkeep]_vars

\* The health monitor with iterations that raise: start() with either outcome
\* of each spawn, sweeps (records age out and are terminated), replenishments
\* and shutdown().
NextMonitor ==
    \/ StartBegin
    \/ \E i \in 1..PoolSize : StartSpawnOk(i)
    \/ \E i \in 1..PoolSize : StartSpawnFail(i)
    \/ StartFinish
    \/ \E t \in Instants : HMSweep(t)
    \/ \E t \in Instants, phase \in {"check", "schedule"} : HMSweepRaises(t, phase)
    \/ HMResume
    \/ ReplEnter
    \/ ReplSpawnOk
    \/ ReplSpawnFail
    \/ ShutdownBegin
    \/ ShutdownLoop
    \/ ShutdownResume
    \/ \E r \in Rec : ProcExit(r)

SpecMonitor == InitConfigured /\ [][NextMonitor]_vars

\* The _replenish tasks of a running pool: start() with either outcome of each
\* spawn, pops served from the queue, sweeps and pops creating _replenish
\* tasks, and a _replenish spawn returning or raising.  Every created task gets
\* to run and every spawn call terminates.
NextLock ==
    \/ StartBegin
    \/ \E i \in 1..PoolSize : StartSpawnOk(i)
    \/ \E i \in 1..PoolSize : StartSpawnFail(i)
    \/ StartFinish
    \/ HMSweepYoung
    \/ ReplEnter
    \/ ReplSpawnOk
    \/ ReplSpawnFail
    \/ \E c \in LiveCallers : PopFromQueue(c)

SpecLock ==
    /\ InitConfigured
    /\ [][NextLock]_vars
    /\ WF_vars(ReplEnter)
    /\ WF_vars(ReplSpawnOk \/ ReplSpawnFail)

\* ================================================================ properties
ServedFromQueue(c) ==
    popPc[c] = "done" /\ popRes[c] # None /\ popSpawn[c] = None

Returns(c) == popPc[c] # "done" /\ popPc'[c] = "done"

\* C1: every record in the Ready Set is also in the tracking collection, so
\* ready_count <= tracked_count, in every reachable state.
C1_ReadyWithinTracked ==
    /\ Range(ready) \subseteq Range(all)
    /\ Len(ready) <= Len(all)

\* C2: pop() never returns a record whose process has exited: the record it
\* returns is running at the moment of the return, and when it comes from the
\* queue it is the first running one, every record ahead of it being dropped.
C2_PopReturnsLive ==
    [][\A c \in Callers :
          (Returns(c) /\ popRes'[c] # None) =>
             /\ proc'[popRes'[c]] = "alive"
             /\ popSpawn'[c] = None =>
                  \E k \in 1..Len(ready) :
                     /\ ready[k] = popRes'[c]
                     /\ \A j \in 1..(k - 1) :
                           /\ proc[ready[j]] # "alive"
                           /\ ready[j] \in popSkipped'[c]
                           /\ ready[j] \notin Range(ready')
                     /\ ready' = SubSeq(ready, k + 1, Len(ready))]_vars

C2_Witness ==
    \E c \in Callers :
       /\ ServedFromQueue(c)
       /\ popSkipped[c] # {}
       /\ proc[popRes[c]] = "alive"

\* C3: no record is both handed to a caller and removed or terminated by the
\* pool: a handed record is not one a sweep has marked, and its process gets
\* no terminate() and no kill() from the pool.
C3_HandedUntouched ==
    \A r \in Handed :
       /\ r \notin termSent \cup killSent
       /\ r \notin Range(hmMarked)

\* C4: pop() calls served from the Ready Set each get a distinct record (and
\* so a distinct room name): no record is returned to two callers.
C4_DistinctRecords ==
    \A c1, c2 \in Callers :
       (c1 # c2 /\ popPc[c1] = "done" /\ popPc[c2] = "done"
          /\ popRes[c1] # None /\ popRes[c2] # None)
       => popRes[c1] # popRes[c2]

C4_Witness ==
    \E c1, c2 \in Callers :
       c1 # c2 /\ ServedFromQueue(c1) /\ ServedFromQueue(c2)

\* replenishments in flight: past the check under the lock, spawn not done
InFlight == IF replSpawn # None THEN 1 ELSE 0

\* C5: tracked_count <= target_size + replenishments in flight, always.
C5_TrackedBound == Len(all) <= PoolSize + InFlight

C5_Witness ==
    /\ replSpawn # None
    /\ replPending >= 1
    /\ Len(all) = PoolSize - 1

StartReturns == startPc = "gather" /\ startPc' = "done"

StartSuccesses == {r \in Range(startTasks) : proc[r] # "failed"}

\* C6: when start() returns after all pool_size spawns succeeded, with no
\* pop() and no shutdown() so far, ready_count = tracked_count = pool_size,
\* _running is true and _spawn_agent was called exactly pool_size times.
C6_StartAllSucceed ==
    [][(/\ StartReturns
        /\ StartSuccesses = Range(startTasks)
        /\ \A c \in Callers : popPc[c] = "idle"
        /\ sdPc = "idle")
       => (/\ Len(ready') = PoolSize
           /\ Len(all') = PoolSize
           /\ running'
           /\ nextId' - 1 = PoolSize)]_vars

C6_Witness ==
    /\ startPc = "done"
    /\ configured
    /\ StartSuccesses = Range(startTasks)
    /\ Len(ready) = PoolSize
    /\ Len(all) = PoolSize
    /\ running
    /\ nextId - 1 = PoolSize

\* C7: when some of the spawns of start() fail, start() still returns (no
\* shutdown() so far): exactly the records of the successful spawns are in
\* the Ready Set and in the tracking collection, the pool is running and the
\* health monitor is started.
C7_StartPartialFailure ==
    [][(/\ StartReturns
        /\ StartSuccesses # Range(startTasks)
        /\ sdPc = "idle")
       => (/\ Range(ready') = StartSuccesses
           /\ Range(all') = StartSuccesses
           /\ Len(ready') = Cardinality(StartSuccesses)
           /\ Len(all') = Cardinality(StartSuccesses)
           /\ running'
           /\ hmPc' = "sleep")]_vars

C7_Witness ==
    /\ startPc = "done"
    /\ StartSuccesses # Range(startTasks)
    /\ StartSuccesses # {}
    /\ Range(ready) = StartSuccesses
    /\ Range(all) = StartSuccesses
    /\ running
    /\ hmPc = "sleep"

\* C8: a pop() that finds a running record at the front of the Ready Set
\* lowers tracked_count by exactly 1 and ready_count by exactly 1, and the
\* record it returns is no longer tracked.
C8_PopTakesOneFromBoth ==
    [][\A c \in Callers :
          (/\ Returns(c)
           /\ ready # <<>>
           /\ IsAlive(Head(ready))
           /\ popPc[c] = "idle")
          => (/\ popRes'[c] = Head(ready)
              /\ Len(all') = Len(all) - 1
              /\ Len(ready') = Len(ready) - 1
              /\ popRes'[c] \notin Range(all'))]_vars

\* C9: after pop() calls at least one of which was served from the Ready Set,
\* with no further pop(), every spawn succeeding and no worker dying,
\* tracked_count and ready_count eventually are pool_size again.
C9_ReplenishedAfterPop ==
    ((\A c \in LiveCallers : popPc[c] = "done")
        /\ (\E c \in LiveCallers : ServedFromQueue(c)))
       ~> (Len(all) = PoolSize /\ Len(ready) = PoolSize)

C9_Witness ==
    /\ \A c \in LiveCallers : popPc[c] = "done"
    /\ \E c \in LiveCallers : ServedFromQueue(c)
    /\ Len(all) = PoolSize
    /\ Len(ready) = PoolSize
    /\ nextId > PoolSize + 1

\* C10: pop() returns None only when the queue gave no running record and the
\* on-demand spawn failed; then pop() has returned normally and the record of
\* the failed spawn is neither tracked nor in the Ready Set.
C10_NoneOnlyAfterFailedSpawn ==
    /\ [](\A c \in Callers :
            (popPc[c] = "done" /\ popRes[c] = None) =>
               /\ popSpawn[c] # None
               /\ proc[popSpawn[c]] = "failed"
               /\ popSpawn[c] \notin Range(all) \cup Range(ready))
    /\ [][\A c \in Callers :
            (popPc[c] = "idle" /\ popPc'[c] = "spawn") =>
               /\ \A r \in Range(ready) : proc[r] # "alive"
               /\ ready' = <<>>]_vars

C10_Witness ==
    \E c \in Callers :
       /\ popPc[c] = "done"
       /\ popRes[c] = None
       /\ proc[popSpawn[c]] = "failed"
       /\ popSkipped[c] # {}

\* records constructed by _replenish calls (the current one included)
ReplRecords ==
    {r \in 1..(nextId - 1) :
        r \notin Range(startTasks) /\ \A c \in Callers : popSpawn[c] # r}

\* C11: with pool_size running records in the Ready Set and every spawn
\* succeeding, pool_size + 1 calls of pop() all return a record: the first
\* pool_size calls get the pool_size pre-warmed records, one each, and the
\* next call, when no replenishment has completed, gets the record of its own
\* on-demand spawn, running and different from the others.
C11_BurstAllServed ==
    /\ \A c \in Callers : popPc[c] = "done" => popRes[c] # None
    /\ \A c \in 1..PoolSize :
          popPc[c] = "done" => ServedFromQueue(c) /\ popRes[c] = startTasks[c]
    /\ (popPc[PoolSize + 1] = "done" /\ ReplRecords \subseteq {replSpawn})
          => /\ popSpawn[PoolSize + 1] # None
             /\ popRes[PoolSize + 1] = popSpawn[PoolSize + 1]
             /\ popRes[PoolSize + 1] \notin Range(startTasks)
             /\ proc[popRes[PoolSize + 1]] = "alive"

C11_Witness ==
    /\ \A c \in 1..(PoolSize + 1) : popPc[c] = "done"
    /\ \A c \in 1..PoolSize : ServedFromQueue(c)
    /\ replSpawn # None
    /\ ReplRecords = {replSpawn}
    /\ popRes[PoolSize + 1] = popSpawn[PoolSize + 1]
    /\ popSpawn[PoolSize + 1] # None

\* a call of pop() by caller c can be made now, within the model's bounds
Callable(c) ==
    /\ popPc[c] = "idle"
    /\ startPc # "idle"
    /\ \A d \in 1..(c - 1) : popPc[d] # "idle"
    /\ nextId <= MaxRecords
    /\ replPending < MaxRepl

\* C12: pop() never waits for a replenishment.  While a _replenish holds the
\* lock, a call of pop() still runs at once up to its return or to its own
\* spawn; no step of pop() takes or releases the lock; and a pop() that is in
\* its on-demand spawn returns, whatever the replenishment does.
C12_PopNeverWaitsForReplenish ==
    /\ [](\A c \in Callers :
            (lockHeld /\ Callable(c))
               => ENABLED (PopFromQueue(c) \/ PopOnDemand(c)))
    /\ [][\A c \in Callers :
            popPc'[c] # popPc[c]
               => lockHeld' = lockHeld /\ replSpawn' = replSpawn]_vars
    /\ \A c \in Callers : (popPc[c] = "spawn") ~> (popPc[c] = "done")

C12_Witness ==
    \E c \in Callers :
       /\ popPc[c] = "done"
       /\ popSpawn[c] # None
       /\ lockHeld
       /\ replSpawn # None
       /\ replSpawn < popSpawn[c]

\* C13: the Ready Set is FIFO.  Every step either takes records from the
\* front of the queue or puts new records behind the ones already there, and
\* a pop() served from the queue returns the running record nearest to the
\* front, which is the one that was inserted earliest.
C13_ReadySetFifo ==
    [][/\ \/ \E k \in 0..Len(ready) : ready' = SubSeq(ready, k + 1, Len(ready))
           \/ /\ Len(ready') > Len(ready)
              /\ SubSeq(ready', 1, Len(ready)) = ready
              /\ \A j \in (Len(ready) + 1)..Len(ready') :
                    ready'[j] \notin Range(ready)
       /\ \A c \in Callers :
             (Returns(c) /\ popSpawn'[c] = None) =>
                \E k \in 1..Len(ready) :
                   /\ popRes'[c] = ready[k]
                   /\ IsAlive(ready[k])
                   /\ \A j \in 1..(k - 1) : ~IsAlive(ready[j])]_vars

C13_Witness ==
    \E c \in Callers :
       /\ ServedFromQueue(c)
       /\ popRes[c] = startTasks[PoolSize]
       /\ \E j \in 1..Len(ready) : ready[j] \in ReplRecords /\ IsAlive(ready[j])

ShutdownReturns == sdPc # "done" /\ sdPc' = "done"

\* C14: when shutdown() returns, tracked_count is 0, _running is false and
\* the health monitor loop is not running: its task was cancelled, or its
\* loop ended by itself, or start() has not created it yet; and from then on
\* _running stays false and no health monitor loop runs.
C14_ShutdownStops ==
    /\ [](sdPc = "done" =>
            /\ ~running
            /\ hmPc \in {"none", "cancelled", "ended"}
            /\ hmPc = "none" => startPc = "gather")
    /\ [][ShutdownReturns =>
            /\ Len(all') = 0
            /\ ~running'
            /\ hmPc' \notin {"sleep", "wait"}]_vars

C14_Witness ==
    /\ sdPc = "done"
    /\ hmPc = "cancelled"
    /\ termSent # {}
    /\ Len(all) = 0
    /\ ~running

\* C15: shutdown() terminates every tracked process.  Once shutdown() has
\* returned after cancelling the health monitor (so start() had put its
\* records into the tracking collection before), every record of start() that
\* was not handed to a caller has been sent terminate(), unless its process
\* had exited already: a record still tracked when shutdown() began cannot be
\* running, unhanded and unsignalled.
C15_ShutdownTerminatesTracked ==
    (sdPc = "done" /\ hmPc = "cancelled") =>
       \A r \in StartSuccesses \ Handed :
          r \in termSent \/ proc[r] # "alive"

\* C16: shutdown() clears all collections: on the step where it returns the
\* Ready Set is empty (status reports ready = 0), as the tracking collection
\* is.
C16_ShutdownClearsReady ==
    [][ShutdownReturns => (ready' = <<>> /\ all' = <<>>)]_vars

\* C17: with LiveKit not configured, start() spawns nothing, leaves the Ready
\* Set and the tracking collection empty, sets _running and returns normally
\* (having started the health monitor); afterwards a pop() that finds the
\* queue empty can always start its on-demand spawn, does start it, and when
\* that spawn succeeds returns its running record, untracked.
C17_DegradedStart ==
    /\ [][(startPc = "idle" /\ startPc' # "idle") =>
            /\ startPc' = "done"
            /\ running'
            /\ ready' = <<>> /\ all' = <<>>
            /\ nextId' = nextId /\ proc' = proc
            /\ hmPc' = "sleep"]_vars
    /\ [](\A c \in Callers :
            (Callable(c) /\ ready = <<>>) => ENABLED PopOnDemand(c))
    /\ [][\A c \in Callers :
            /\ (popPc[c] = "idle" /\ popPc'[c] # "idle" /\ ready = <<>>) =>
                  /\ popPc'[c] = "spawn"
                  /\ proc'[popSpawn'[c]] = "starting"
            /\ (popPc[c] = "spawn" /\ Returns(c)
                   /\ proc'[popSpawn[c]] = "alive") =>
                  /\ popRes'[c] = popSpawn[c]
                  /\ popRes'[c] \notin Range(all') \cup Range(ready')]_vars

C17_Witness ==
    /\ ~configured
    /\ startPc = "done"
    /\ nextId = 2
    /\ \E c \in Callers :
          /\ popPc[c] = "done"
          /\ popRes[c] = popSpawn[c]
          /\ popRes[c] # None
          /\ proc[popRes[c]] = "alive"

\* C18: a pool started with LiveKit not configured pre-warms no worker while
\* it runs: the tracking collection stays empty and every _spawn_agent call
\* is the on-demand call of a pop().
C18_DegradedNeverPrewarms ==
    (~configured /\ running) => (all = <<>> /\ ReplRecords = {})

\* C19: status is a side-effect-free snapshot.  A read of status changes no
\* part of the pool's state (queue, tracking list, _running, records,
\* tasks), and the dict it returns has pool_size = the target size, ready =
\* the length of the queue, total_tracked = the length of the tracking list
\* and running = _running, all as of the moment of the read.
C19_StatusSnapshot ==
    [][statusSeen' # statusSeen =>
          /\ statusSeen' = <<[pool_size |-> PoolSize,
                              ready |-> Len(ready),
                              total_tracked |-> Len(all),
                              running |-> running]>>
          /\ UNCHANGED <<configured, running, ready, all, lockHeld, proc,
                         created, termSent, killSent, nextId, now, startPc,
                         startTasks, hmPc, hmMarked, replPending, replSpawn,
                         popPc, popRes, popSpawn, popSkipped, sdPc, sdIdx,
                         sdCur, tokenResp, spawnVars, replRaised,
                         hmErrors>>]_vars

C19_Witness ==
    /\ statusSeen # <<>>
    /\ statusSeen[1].ready > statusSeen[1].total_tracked
    /\ statusSeen[1].ready # Len(ready)
    /\ ~statusSeen[1].running
    /\ sdPc = "done"

\* C20: every dead record pop() took from the queue while draining is out of
\* the tracking collection once pop() is past the drain (so when it
\* returns), and the caller does not see the death: pop() returns the next
\* running record of the queue, or goes on to its on-demand spawn.
C20_DeadDroppedSilently ==
    \A c \in Callers :
       popPc[c] # "idle" =>
          /\ popSkipped[c] \cap Range(all) = {}
          /\ \A r \in popSkipped[c] : proc[r] = "exited"
          /\ popSkipped[c] # {} =>
                \/ popSpawn[c] # None
                \/ /\ ServedFromQueue(c)
                   /\ popRes[c] \notin popSkipped[c]

C20_Witness ==
    \E c \in Callers :
       /\ ServedFromQueue(c)
       /\ popSkipped[c] # {}
       /\ termSent = {}
       /\ ReplRecords = {}
       /\ replPending = 1
       /\ all = <<>>


TrackedDead == {r \in Range(all) : proc[r] = "exited"}

\* C21: a worker death leads to removal and replenishment.  Whenever a
\* tracked record's process has exited while the pool runs, and spawns
\* succeed, the record eventually leaves the tracking collection (through a
\* pop()'s drain or through a sweep) and the tracking collection eventually
\* holds pool_size records again, all of them running; and every pop() that
\* went on to its on-demand spawn returns a record.
C21_DeathLeadsToReplenishment ==
    /\ \A r \in Rec :
          (running /\ r \in TrackedDead) ~> (r \notin Range(all))
    /\ (running /\ TrackedDead # {})
          ~> (Len(all) = PoolSize /\ TrackedDead = {})
    /\ \A c \in HealCallers :
          (popPc[c] = "spawn") ~> (popPc[c] = "done" /\ popRes[c] # None)

C21_Witness ==
    \E r \in Range(startTasks) :
       /\ proc[r] = "exited"
       /\ r \notin Range(all)
       /\ \A c \in Callers : r \notin popSkipped[c]
       /\ Len(all) = PoolSize
       /\ TrackedDead = {}
       /\ ReplRecords \cap Range(all) # {}


\* C22: the token endpoint turns pool exhaustion into unavailability.  A
\* request whose pop() returned None is answered with HTTP 503 and no token;
\* a token is generated only in a 200 response and only for the room of the
\* record pop() returned to that request; no request is answered before its
\* pop() has returned.
C22_ExhaustionIs503 ==
    \A c \in Callers :
       /\ popPc[c] # "done" => tokenResp[c] = NoResponse
       /\ popPc[c] = "done" =>
             /\ popRes[c] = None =>
                   tokenResp[c].status = 503 /\ tokenResp[c].room = None
             /\ tokenResp[c].room # None =>
                   tokenResp[c].status = 200 /\ tokenResp[c].room = popRes[c]
             /\ tokenResp[c].status \in {200, 503}

C22_Witness ==
    \E c1, c2 \in Callers :
       /\ popPc[c1] = "done" /\ popRes[c1] = None
       /\ tokenResp[c1] = [status |-> 503, room |-> None]
       /\ popPc[c2] = "done" /\ popRes[c2] # None
       /\ tokenResp[c2] = [status |-> 200, room |-> popRes[c2]]


\* the create_subprocess_exec calls of the current _spawn_agent call
CallLaunches == {i \in 1..Len(launches) : launches[i].call = spCalls}

FailedLaunch(i) == launches[i].outcome \in {"raised", "exited"}

\* C23: a _spawn_agent call makes at most 3 launch attempts.  It returns its
\* record at the first attempt whose process is running after the grace
\* period, all earlier attempts having failed (two failures and a success: 3
\* launches and a record); it raises only after the 3rd attempt has failed,
\* with the error of that attempt, be it a launch exception or a process that
\* ended within the grace period.
C23_SpawnAtMostThreeAttempts ==
    /\ attempt <= max_attempts
    /\ Cardinality(CallLaunches) <= max_attempts
    /\ \A i \in CallLaunches : launches[i].attempt < attempt => FailedLaunch(i)
    /\ spPc = "retry" =>
          attempt < max_attempts /\ FailedLaunch(Len(launches))
    /\ spPc = "returned" =>
          /\ Cardinality(CallLaunches) = attempt
          /\ launches[Len(launches)].attempt = attempt
          /\ launches[Len(launches)].outcome = "running"
    /\ spPc = "raised" =>
          /\ attempt = max_attempts
          /\ Cardinality(CallLaunches) = max_attempts
          /\ \A i \in CallLaunches : FailedLaunch(i)
          /\ spError.attempt = max_attempts
          /\ spError.kind = IF launches[Len(launches)].outcome = "raised"
                            THEN "launch" ELSE "died"

C23_Witness ==
    /\ spPc = "returned"
    /\ attempt = max_attempts
    /\ Cardinality(CallLaunches) = max_attempts
    /\ \E i, j \in CallLaunches :
          launches[i].outcome = "raised" /\ launches[j].outcome = "exited"
    /\ agent.ready

\* C24: a retry is a whole new spawn: no two launch attempts of one
\* _spawn_agent call are given the same room name.
C24_RetryUsesFreshRoom ==
    \A i, j \in CallLaunches :
       i # j => launches[i].room # launches[j].room

\* C25: the record a successful _spawn_agent call returns has ready and
\* health_check_passed set and holds the process of the attempt that passed
\* the liveness probe, not a process of an earlier attempt.
C25_ReturnedRecordIsReady ==
    spPc = "returned" =>
       /\ agent.ready
       /\ agent.health_check_passed
       /\ agent.process = Len(launches)
       /\ launches[agent.process].call = spCalls
       /\ launches[agent.process].attempt = attempt
       /\ launches[agent.process].outcome = "running"

C25_Witness ==
    /\ spPc = "returned"
    /\ agent.ready /\ agent.health_check_passed
    /\ attempt > 1
    /\ agent.process = Len(launches)
    /\ \E i \in CallLaunches : launches[i].outcome = "exited"

\* a _replenish task enters the lock and finds the tracked count at or above
\* pool_size
ReplenishFindsPoolFull == ReplEnter /\ Len(all) >= PoolSize

\* C26: a _replenish that finds len(_all_agents) >= pool_size under the lock
\* spawns nothing (no record is constructed, no process is launched, the lock
\* is free again) and leaves the tracking list and the ready queue as they
\* were.
C26_FullPoolReplenishIsNoOp ==
    [][ReplenishFindsPoolFull =>
          /\ all' = all
          /\ ready' = ready
          /\ nextId' = nextId
          /\ proc' = proc
          /\ replSpawn' = None
          /\ ~lockHeld']_vars

\* a _replenish task is about to take the free lock of a full pool that an
\* earlier _replenish has filled up
C26_Witness ==
    /\ replPending > 0
    /\ ~lockHeld
    /\ Len(all) = PoolSize
    /\ ReplRecords \cap Range(all) # {}

\* the _spawn_agent call of the _replenish holding the lock returns its record
ReplenishSpawnSucceeds ==
    replSpawn # None /\ replSpawn' = None /\ proc'[replSpawn] = "alive"

\* the _spawn_agent call of the _replenish holding the lock raises
ReplenishSpawnFails ==
    replSpawn # None /\ replSpawn' = None /\ proc'[replSpawn] = "failed"

\* C27: a _replenish that found len(_all_agents) < pool_size and whose spawn
\* succeeds inserts exactly one record, a new one, at the end of both the
\* tracking list and the ready queue: each grows by exactly 1.
C27_ReplenishInsertsOneInBoth ==
    [][ReplenishSpawnSucceeds =>
          /\ replSpawn \notin Range(all) \cup Range(ready)
          /\ all' = Append(all, replSpawn)
          /\ ready' = Append(ready, replSpawn)
          /\ Len(all') = Len(all) + 1
          /\ Len(ready') = Len(ready) + 1]_vars

\* a replenished record is the last of both collections, next to older ones
C27_Witness ==
    /\ replSpawn = None
    /\ Len(all) = PoolSize /\ Len(ready) >= PoolSize
    /\ all[Len(all)] \in ReplRecords
    /\ ready[Len(ready)] = all[Len(all)]
    /\ IsAlive(all[Len(all)])

\* C28: a spawn failure inside _replenish is swallowed: the task returns
\* normally, no exception leaves it, and the tracking list and the ready queue
\* are as they were.
C28_ReplenishSwallowsFailure ==
    [][ReplenishSpawnFails =>
          /\ replRaised' = replRaised
          /\ all' = all
          /\ ready' = ready]_vars

\* one run of the health monitor task: a sweep from its start, or the rest of
\* a sweep after a wait for a terminated process
SweepStep == (\E t \in Instants : HMSweep(t)) \/ HMResume

\* the sweep's removal phase is not over: it waits for a process to end
StillToRemove(r) == hmPc' = "wait" /\ r \in Range(hmMarked')

\* C29: a health sweep removes every tracked record whose process has exited.
\* Step by step: a record that is tracked with an exited process when the
\* sweep starts, or that is in the dead_agents of a sweep under way, is out of
\* the tracking list after the step or still in the dead_agents the loop is
\* working through; when the removal phase is over none of them is tracked.
C29_SweepRemovesExited ==
    [][SweepStep =>
          /\ \A r \in Range(IF hmPc = "wait" THEN hmMarked ELSE all) :
                proc[r] = "exited" =>
                   r \notin Range(all') \/ StillToRemove(r)
          /\ hmPc' # "wait" => hmMarked' = <<>>]_vars

\* after a sweep: a record whose process ended by itself is out of the
\* tracking list and still in the ready queue, so no pop() took it out
C29_Witness ==
    /\ hmPc = "sleep"
    /\ \E r \in Range(ready) \ Range(all) :
          /\ proc[r] = "exited"
          /\ r \notin termSent \cup killSent

\* C30: a tracked record whose age is strictly above MAX_AGENT_AGE at a sweep
\* is removed from the tracking list by that sweep although its process is
\* alive, and a tracked record with a live process and an age of at most
\* MAX_AGENT_AGE is not removed by the sweep.
C30_SweepRecyclesOnlyOverAge ==
    [][SweepStep =>
          /\ hmPc = "sleep" =>
                \A r \in Range(all) :
                   IsAlive(r) =>
                      IF now' - created[r] > MAX_AGENT_AGE
                      THEN r \notin Range(all') \/ StillToRemove(r)
                      ELSE r \in Range(all')
          /\ hmPc = "wait" =>
                /\ \A r \in Range(hmMarked) :
                      r \notin Range(all') \/ StillToRemove(r)
                /\ \A r \in Range(all) \ Range(hmMarked) :
                      r \in Range(all')]_vars

\* a sweep has terminated an over-age record and dropped it from the tracking
\* list, next to a younger live record that stays tracked
C30_Witness ==
    /\ hmPc \in {"sleep", "wait"}
    /\ \E r \in termSent \ Range(all) :
          now - created[r] > MAX_AGENT_AGE
    /\ \E q \in Range(all) :
          /\ IsAlive(q)
          /\ created[q] < now
          /\ now - created[q] <= MAX_AGENT_AGE

\* the task that sent r the terminate signal is inside its bounded wait for
\* r's process
AwaitedAfterTerminate(r) ==
    \/ hmPc = "wait" /\ hmMarked # <<>> /\ Head(hmMarked) = r
    \/ sdPc = "wait" /\ sdCur = r

\* C31: a record the pool removes while its process is alive gets a terminate
\* signal and, when the process has not ended within the bounded wait, a kill,
\* also when shutdown() cancels the health monitor during the wait: a process
\* that was sent the terminate signal and is still alive is being waited for
\* or has been killed, so it ends.
C31_TerminatedThenKilled ==
    \A r \in termSent :
       IsAlive(r) => r \in killSent \/ AwaitedAfterTerminate(r)

\* C32: the replenishments a sweep schedules are not serialized: with a
\* deficit of at least 2, while one _replenish is in its spawn phase a second
\* scheduled _replenish can enter its own.
C32_ReplenishmentsSpawnInParallel ==
    (/\ replSpawn # None
     /\ replPending > 0
     /\ PoolSize - Len(all) >= 2
     /\ nextId <= MaxRecords) => ENABLED ReplEnter

\* C33: after its removals a health sweep schedules exactly
\* max(0, pool_size - len(_all_agents)) replenishments, the length being the
\* one after the removals: none when the pool is at or above its size, and
\* none before the removal loop is over.
C33_SweepSchedulesDeficit ==
    [][SweepStep =>
          replPending' = replPending +
             (IF hmPc' = "wait" THEN 0
              ELSE IF Len(all') >= PoolSize THEN 0
              ELSE PoolSize - Len(all'))]_vars

\* after a sweep that dropped a dead record, with no pop() so far: the
\* replenishments waiting are the ones of the sweep, one per missing record
C33_Witness ==
    /\ hmPc = "sleep"
    /\ popPc[1] = "idle"
    /\ \E r \in Range(ready) \ Range(all) : proc[r] = "exited"
    /\ replPending >= 1
    /\ replPending = PoolSize - Len(all)

\* C34: an exception inside one iteration of the health monitor never stops
\* it: while the pool is running, after an iteration that raised the monitor is
\* in a further iteration (asleep before its sweep, or inside the sweep), and
\* its loop is over only when the pool has stopped running, the task having
\* ended by itself or been cancelled.
C34_MonitorSurvivesErrors ==
    /\ (hmErrors > 0 /\ running) => hmPc \in {"sleep", "wait"}
    /\ hmPc \in {"ended", "cancelled"} => ~running

\* an iteration has raised and a later sweep is under way, waiting in its
\* removal loop
C34_Witness ==
    /\ hmErrors > 0
    /\ running
    /\ hmPc = "wait"

\* C35: a pop() that returns a record taken from the ready queue schedules
\* exactly one replenishment; a pop() served by the on-demand spawn schedules
\* none, neither when it starts the spawn nor when it returns, and its return
\* leaves the tracking list and the ready queue as they were; the record of an
\* on-demand spawn is at no time in the tracking list or in the ready queue.
C35_ReplenishOnlyForQueuedRecord ==
    /\ [](\A c \in Callers :
            popSpawn[c] # None =>
               popSpawn[c] \notin Range(all) \cup Range(ready))
    /\ [][\A c \in Callers :
            /\ (popPc[c] = "idle" /\ popPc'[c] = "done" /\ popRes'[c] # None) =>
                  replPending' = replPending + 1
            /\ (popPc[c] = "idle" /\ popPc'[c] = "spawn") =>
                  replPending' = replPending
            /\ (popPc[c] = "spawn" /\ popPc'[c] = "done") =>
                  /\ replPending' = replPending
                  /\ all' = all
                  /\ ready' = ready]_vars

\* one pop() has been served from the queue and another by an on-demand spawn
C35_Witness ==
    \E c, d \in Callers :
       /\ ServedFromQueue(c)
       /\ popPc[d] = "done"
       /\ popSpawn[d] # None
       /\ popRes[d] = popSpawn[d]

\* C36: when the ready queue holds more entries than pool_size and all of
\* them are dead, pop() discards every one of them, the queue is empty when
\* the on-demand spawn starts, and pop() returns the freshly spawned record
\* when the spawn succeeds.
C36_DesyncedQueueDrained ==
    [][\A c \in Callers :
          /\ (/\ popPc[c] = "idle" /\ popPc'[c] # "idle"
              /\ Len(ready) > PoolSize
              /\ \A i \in 1..Len(ready) : ~IsAlive(ready[i])) =>
                 /\ ready' = <<>>
                 /\ popSkipped'[c] = Range(ready)
                 /\ popPc'[c] = "spawn"
                 /\ popSpawn'[c] \notin Range(ready) \cup {None}
          /\ (/\ popPc[c] = "spawn" /\ popPc'[c] = "done"
              /\ proc'[popSpawn[c]] = "alive") =>
                 popRes'[c] = popSpawn[c]]_vars

\* a pop() that skipped more than pool_size dead entries has returned the
\* record of its on-demand spawn
C36_Witness ==
    \E c \in Callers :
       /\ popPc[c] = "done"
       /\ Cardinality(popSkipped[c]) > PoolSize
       /\ popSpawn[c] # None
       /\ popRes[c] = popSpawn[c]
       /\ IsAlive(popRes[c])

\* C37: the ready queue never holds more entries than pool_size, whatever
\* sequence of start, pops, sweeps (age-based recycling included) and
\* replenishments has run, so the 'ready' figure of status is at most pool_size.
C37_ReadyWithinPoolSize == Len(ready) <= PoolSize

\* C38: once shutdown() has returned the pool stays empty: no _replenish that
\* was scheduled or in flight before, and no start() still waiting for its
\* spawns, inserts a record afterwards; the tracked count remains 0.
C38_EmptyAfterShutdown == sdPc = "done" => all = <<>>

\* C39: the _replenish lock is released on every exit of a _replenish (pool
\* already full, spawn returned, spawn raised): the lock is held only while a
\* _replenish is inside its spawn, a held lock is eventually free given that
\* the spawn call terminates, and a created _replenish that finds the lock
\* free can take it (as long as a record is left for it to construct), so none
\* is blocked by one that failed or did nothing.
C39_ReplenishLockReleased ==
    /\ [](lockHeld <=> replSpawn # None)
    /\ [](replPending > 0 /\ ~lockHeld /\ (ReplNeeded => nextId <= MaxRecords)
             => ENABLED ReplEnter)
    /\ lockHeld ~> ~lockHeld

\* a _replenish has raised, the lock is free and the next _replenish is about
\* to take it
C39_Witness ==
    /\ replRaised # {}
    /\ ~lockHeld
    /\ replPending > 0

NoDuplicates(s) == \A i, j \in 1..Len(s) : i # j => s[i] # s[j]

\* C40: within one health sweep a tracked record is marked for removal at most
\* once: a record whose process has exited and which is over age as well is in
\* dead_agents once, so _remove_agent is called once per marked record.  Holds
\* for the dead_agents of a sweep at any instant the clock may show, and for
\* the part of it a suspended removal loop still has to work through.
C40_MarkedAtMostOnce ==
    /\ \A t \in Instants : t >= now => NoDuplicates(DeadAgents(t))
    /\ NoDuplicates(hmMarked)

\* a sweep is in its removal loop: it waits for an over-age live process, and
\* a record that is both dead and over age is among those still to remove
C40_Witness ==
    /\ hmPc = "wait"
    /\ \E i \in 2..Len(hmMarked) :
          /\ proc[hmMarked[i]] = "exited"
          /\ AgedOut(hmMarked[i], now)
          /\ hmMarked[i] \in Range(all)

====
